---- MODULE Spec2Model ----
(***************************************************************************)
(* Model of the Airflow DAG "loan_processing"                              *)
(* (src/dags/loan_data_processing.py).                                     *)
(*                                                                         *)
(* The state is one DAG run at a time: the task instances' states, the     *)
(* run's XCom table, and the three external stores the tasks touch: the    *)
(* worker's filesystem, the S3 bucket and the "destination" Postgres       *)
(* database.  Runs follow one another (schedule_interval="@daily",         *)
(* catchup=False); the stores persist from run to run.                     *)
(***************************************************************************)
EXTENDS Integers, Sequences, FiniteSets

VARIABLES
    run,            \* number of the current DAG run (1, 2, ...)
    state,          \* task_id -> state of the task instance in this run
    trace,          \* history: the task_ids executed in this run, in order
    xcom,           \* <<task_id, key>> -> value pushed in this run
    fs,             \* path -> "absent" | "dir" | "file"
    dataset,        \* content of loan_data_small.csv (in S3 and, if present, on disk)
    s3,             \* set of <<bucket, key>> objects the bucket holds
    tables,         \* table name -> [exists, rows] in the destination database
    error,          \* history: task_id -> why its last try failed ("" if it did not)
    checkedFile,    \* history: was the dataset file on disk when is_data_local ran
    nSuccess        \* history: number of runs that ended in state success

vars == <<run, state, trace, xcom, fs, dataset, s3, tables, error,
          checkedFile, nSuccess>>

----------------------------------------------------------------------------
(* Bounds of the model *)

MaxRows == 4        \* data rows in the dataset
MaxRuns == 2        \* DAG runs in a behaviour

----------------------------------------------------------------------------
(* Module-level constants of the DAG file *)

SOURCE_S3_KEY == "data/raw-data/loan_data_small.csv"
SOURCE_S3_BUCKET == "beranger-bucket-760254833251"
DEST_PATH_FILE == "/opt/airflow/data/raw-data"

\* os.path.join(DEST_PATH_FILE, "loan_data_small.csv")
DATASET_FILE == "/opt/airflow/data/raw-data/loan_data_small.csv"

Paths == {DEST_PATH_FILE, DATASET_FILE}

\* BaseOperator.retries of task t: the DAG is built without default_args and
\* no operator sets retries.
RetryOnce(t) == 1

Retries(t) == 0

----------------------------------------------------------------------------
(* Python values that travel through XCom and the Jinja templates.         *)
(* A number is the exact fraction num/den.                                 *)

None == [tag |-> "None", num |-> 0, den |-> 1]
NotPushed == [tag |-> "unset", num |-> 0, den |-> 1]
PyInt(n) == [tag |-> "int", num |-> n, den |-> 1]
PyFloat(n, d) == [tag |-> "float", num |-> n, den |-> d]
PyBool(b) == [tag |-> "bool", num |-> IF b THEN 1 ELSE 0, den |-> 1]
PyTrue == PyBool(TRUE)
PyFalse == PyBool(FALSE)

----------------------------------------------------------------------------
(* The dataset: rows of (grade, loan_amount); the header declares Columns. *)

Columns == <<"loan_amount", "grade">>
Grades == {"A", "B", "C", "D"}         \* the grade values of the dataset
TrackedGrades == {"A", "B", "C", "D"}  \* the grades the SQL query averages
LoanAmounts == {1, 3}

DataRows == [grade : Grades, loan_amount : LoanAmounts]

GradeRank(g) ==
    CASE g = "A" -> 1 [] g = "B" -> 2 [] g = "C" -> 3 [] g = "D" -> 4

RowLeq(r1, r2) ==
    \/ GradeRank(r1.grade) < GradeRank(r2.grade)
    \/ r1.grade = r2.grade /\ r1.loan_amount <= r2.loan_amount

\* The files of up to n data rows.  Both aggregations are insensitive to the
\* order of the rows, so one ordering stands for each multiset of rows.
RECURSIVE FilesUpTo(_)
FilesUpTo(n) ==
    IF n = 0 THEN {<<>>}
    ELSE LET shorter == FilesUpTo(n - 1)
         IN  shorter \cup
             UNION { { Append(f, r) : r \in { q \in DataRows :
                                   f = <<>> \/ RowLeq(f[Len(f)], q) } } :
                     f \in { g \in shorter : Len(g) = n - 1 } }

Datasets == FilesUpTo(MaxRows)

----------------------------------------------------------------------------
(* Filesystem, S3 hook, XCom *)

\* os.path.exists(datapath)
os_path_exists(datapath) == fs[datapath] # "absent"

\* ti.xcom_pull(key=key, task_ids=task_ids): None when nothing was pushed
xcom_pull(x, key, task_ids) ==
    IF <<task_ids, key>> \in DOMAIN x /\ x[<<task_ids, key>>] # NotPushed
    THEN x[<<task_ids, key>>]
    ELSE None

XComKeys ==
    { <<"is_data_local", "is_local">>,
      <<"compute_general_aggregats", "nb_lines">>,
      <<"compute_general_aggregats", "nb_cols">>,
      <<"compute_loan_aggregats", "mean_loan_a">>,
      <<"compute_loan_aggregats", "mean_loan_b">>,
      <<"compute_loan_aggregats", "mean_loan_c">>,
      <<"compute_loan_aggregats", "mean_loan_d">> }

\* The XCom table after task t has made the first k of its pushes (a
\* sequence of <<key, value>>); the task's earlier entries are cleared first.
XComAfter(x, t, pushes, k) ==
    [ e \in DOMAIN x |->
        IF e[1] # t THEN x[e]
        ELSE IF \E i \in 1..k : pushes[i][1] = e[2]
             THEN (pushes[CHOOSE i \in 1..k : pushes[i][1] = e[2]])[2]
             ELSE NotPushed ]

----------------------------------------------------------------------------
(* The python callables *)

\* _is_data_local: the value pushed under key "is_local"
_is_data_local(datapath) == <<  <<"is_local", PyBool(os_path_exists(datapath))>>  >>

_branch_inverted(value) ==
    IF value = PyTrue THEN "log_data_is_remote" ELSE "log_data_is_local"

_branch_truthy(value) ==
    IF value.tag \in {"bool", "int"} /\ value.num # 0
    THEN "log_data_is_local"
    ELSE "log_data_is_remote"

\* _branch: the task_id returned for the pulled value
_branch(value) ==
    IF value = PyTrue THEN "log_data_is_local" ELSE "log_data_is_remote"

RECURSIVE SumLoan(_)
SumLoan(rows) ==
    IF rows = <<>> THEN 0 ELSE Head(rows).loan_amount + SumLoan(Tail(rows))

RECURSIVE GCD(_, _)
GCD(a, b) == IF b = 0 THEN a ELSE GCD(b, a % b)

\* SELECT AVG(loan_amount) FROM df WHERE grade = g  (NULL over no rows)
SqlAvg(df, g) ==
    LET HasGrade(r) == r.grade = g
        sel == SelectSeq(df, HasGrade)
        d == GCD(SumLoan(sel), Len(sel))
    IN  IF sel = <<>> THEN None
        ELSE PyFloat(SumLoan(sel) \div d, Len(sel) \div d)

\* _compute_general_aggregats: the pushes, in order, for the frame read
_compute_general_aggregats(df) ==
    << <<"nb_lines", PyInt(Len(df))>>, <<"nb_cols", PyInt(Len(Columns))>> >>

\* _compute_loan_aggregats: the pushes, in order, for the frame read
_compute_loan_aggregats(df) ==
    << <<"mean_loan_a", SqlAvg(df, "A")>>,
       <<"mean_loan_b", SqlAvg(df, "B")>>,
       <<"mean_loan_c", SqlAvg(df, "C")>>,
       <<"mean_loan_d", SqlAvg(df, "D")>> >>

----------------------------------------------------------------------------
(* The task graph *)

Tasks ==
    { "is_data_local", "branch", "log_data_is_local", "log_data_is_remote",
      "extract_data_from_s3", "compute_general_aggregats",
      "compute_loan_aggregats", "create_table", "store_aggregats" }

\* The upstream tasks of t, from the >> chains
Upstream(t) ==
    CASE t = "is_data_local" -> {}
      [] t = "branch" -> {"is_data_local"}
      [] t = "log_data_is_local" -> {"branch"}
      [] t = "log_data_is_remote" -> {"branch"}
      [] t = "extract_data_from_s3" -> {"log_data_is_remote"}
      [] t = "compute_general_aggregats" ->
             {"log_data_is_local", "extract_data_from_s3"}
      [] t = "compute_loan_aggregats" -> {"compute_general_aggregats"}
      [] t = "create_table" -> {"compute_loan_aggregats"}
      [] t = "store_aggregats" -> {"create_table"}

Downstream(t) == { d \in Tasks : t \in Upstream(d) }

TriggerRuleDefault(t) == "all_success"

TriggerRule(t) ==
    IF t = "compute_general_aggregats"
    THEN "none_failed_min_one_success"
    ELSE "all_success"

Finished == {"success", "failed", "skipped", "upstream_failed"}

\* What the scheduler decides for task t from its upstream states:
\* "run", "skipped", "upstream_failed", or "wait".
TriggerEval(st, t) ==
    LET up == Upstream(t)
        bad == \E u \in up : st[u] \in {"failed", "upstream_failed"}
        done == \A u \in up : st[u] \in Finished
    IN  IF TriggerRule(t) = "all_success"
        THEN IF bad THEN "upstream_failed"
             ELSE IF \E u \in up : st[u] = "skipped" THEN "skipped"
             ELSE IF \A u \in up : st[u] = "success" THEN "run"
             ELSE "wait"
        ELSE IF bad THEN "upstream_failed"
             ELSE IF ~done THEN "wait"
             ELSE IF \E u \in up : st[u] = "success" THEN "run"
             ELSE "skipped"

\* The task states after the scheduler has marked every task it can decide
MarkOnce(st) ==
    [ t \in Tasks |->
        IF st[t] = "none" /\ TriggerEval(st, t) \in {"skipped", "upstream_failed"}
        THEN TriggerEval(st, t)
        ELSE st[t] ]

RECURSIVE Settle(_)
Settle(st) == IF MarkOnce(st) = st THEN st ELSE Settle(MarkOnce(st))

BranchSkipsNothing(chosen) == {}

\* BranchPythonOperator: the direct downstream tasks the branch skips
BranchSkipped(chosen) == Downstream("branch") \ {chosen}

\* Number of tries of task t so far in this run
RECURSIVE Count(_, _)
Count(s, t) ==
    IF s = <<>> THEN 0
    ELSE (IF Head(s) = t THEN 1 ELSE 0) + Count(Tail(s), t)

TryNumber(t) == Count(trace, t)

Executed(t) == \E i \in 1..Len(trace) : trace[i] = t

\* The state a task instance takes when its try raises
FailState(t) ==
    IF TryNumber(t) + 1 <= Retries(t) THEN "up_for_retry" ELSE "failed"

Runnable(t) ==
    /\ state[t] \in {"none", "up_for_retry"}
    /\ TriggerEval(state, t) = "run"

RunFinished == \A t \in Tasks : state[t] \in Finished

\* DagRun state, from the leaf task store_aggregats
RunState ==
    IF ~RunFinished THEN "running"
    ELSE IF state["store_aggregats"] \in {"success", "skipped"} THEN "success"
    ELSE "failed"

----------------------------------------------------------------------------
(* S3Hook.download_file(key, bucket_name, local_path,                      *)
(*     preserve_file_name=True, use_autogenerated_subdir=False)            *)

\* _extract_from_s3: [ok, fs], the outcome and the filesystem it leaves.
\* The object is written under local_path with its base name, which is
\* DATASET_FILE; the hook raises when the bucket lacks the object and when the
\* file is already there, and creates the missing directories otherwise.
_extract_from_s3(key, bucket_name, local_path) ==
    IF <<bucket_name, key>> \notin s3 \/ fs[DATASET_FILE] = "file"
    THEN [ok |-> FALSE, fs |-> fs]
    ELSE [ok |-> TRUE,
          fs |-> [fs EXCEPT ![local_path] = "dir", ![DATASET_FILE] = "file"]]

----------------------------------------------------------------------------
(* The destination database and the two SQL statements *)

CreatedTable == "aggregats_loans_table"     \* CREATE TABLE IF NOT EXISTS ...
InsertTarget == "aggregats_loans_tabble"    \* INSERT INTO ...
TableNames == {CreatedTable, InsertTarget}

\* CURRENT_TIMESTAMP: runs are daily, the run number stands for the day
CURRENT_TIMESTAMP == run

\* Jinja renders "{{ value }}" as str(value); the SQL parser then reads the
\* text as a numeric literal, or as a name ("None", "True", "False").
Render(v) ==
    IF v.tag \in {"int", "float"}
    THEN [kind |-> "number", text |-> "", num |-> v.num, den |-> v.den]
    ELSE [kind |-> "name",
          text |-> IF v.tag = "bool"
                   THEN (IF v.num = 1 THEN "True" ELSE "False")
                   ELSE "None",
          num |-> 0, den |-> 1]

StoreValuesMixedUp(x) ==
    [nb_lines |-> Render(xcom_pull(x, "nb_lines", "compute_general_aggregats")),
     nb_cols |-> Render(xcom_pull(x, "nb_lines", "compute_general_aggregats")),
     mean_loan_a |-> Render(xcom_pull(x, "mean_loan_a", "compute_loan_aggregats")),
     mean_loan_b |-> Render(xcom_pull(x, "mean_loan_b", "compute_loan_aggregats")),
     mean_loan_c |-> Render(xcom_pull(x, "mean_loan_c", "compute_loan_aggregats")),
     mean_loan_d |-> Render(xcom_pull(x, "mean_loan_d", "compute_loan_aggregats"))]

\* The VALUES list of store_aggregats after templating
StoreValues(x) ==
    [nb_lines |-> Render(xcom_pull(x, "nb_lines", "compute_general_aggregats")),
     nb_cols |-> Render(xcom_pull(x, "nb_cols", "compute_general_aggregats")),
     mean_loan_a |-> Render(xcom_pull(x, "mean_loan_a", "compute_loan_aggregats")),
     mean_loan_b |-> Render(xcom_pull(x, "mean_loan_b", "compute_loan_aggregats")),
     mean_loan_c |-> Render(xcom_pull(x, "mean_loan_c", "compute_loan_aggregats")),
     mean_loan_d |-> Render(xcom_pull(x, "mean_loan_d", "compute_loan_aggregats"))]

ValueColumns ==
    {"nb_lines", "nb_cols", "mean_loan_a", "mean_loan_b", "mean_loan_c",
     "mean_loan_d"}

SqlNumber(tok) == [num |-> tok.num, den |-> tok.den]

\* CREATE TABLE IF NOT EXISTS name (...): [error, db]
PgCreateIfNotExists(db, name, up) ==
    IF ~up THEN [error |-> "connection", db |-> db]
    ELSE [error |-> "", db |-> [db EXCEPT ![name].exists = TRUE]]

\* INSERT INTO name (...) VALUES (...): [error, db]
PgInsert(db, name, vals, now, up) ==
    IF ~up THEN [error |-> "connection", db |-> db]
    ELSE IF ~db[name].exists THEN [error |-> "undefined_table", db |-> db]
    ELSE IF \E c \in ValueColumns : vals[c].kind = "name"
         THEN [error |-> "undefined_column", db |-> db]
    ELSE [error |-> "",
          db |-> [db EXCEPT ![name].rows = Append(@,
                    [nb_lines |-> SqlNumber(vals.nb_lines),
                     nb_cols |-> SqlNumber(vals.nb_cols),
                     date_and_hour |-> now,
                     mean_loan_a |-> SqlNumber(vals.mean_loan_a),
                     mean_loan_b |-> SqlNumber(vals.mean_loan_b),
                     mean_loan_c |-> SqlNumber(vals.mean_loan_c),
                     mean_loan_d |-> SqlNumber(vals.mean_loan_d)])]]

----------------------------------------------------------------------------
(* Initial state: the first run is about to start.  The worker's data      *)
(* directory may be missing, empty, or already hold the dataset; the       *)
(* bucket may or may not hold the object; the database holds no rows, the  *)
(* DAG's own table is not created yet, and a table of the name the insert  *)
(* statement uses may or may not exist.                                    *)

NoXCom == [e \in XComKeys |-> NotPushed]
FreshTasks == [t \in Tasks |-> "none"]
NoErrors == [t \in Tasks |-> ""]

Init ==
    /\ run = 1
    /\ state = FreshTasks
    /\ trace = <<>>
    /\ xcom = NoXCom
    /\ error = NoErrors
    /\ checkedFile = "unchecked"
    /\ nSuccess = 0
    /\ dataset \in Datasets
    /\ fs \in { f \in [Paths -> {"absent", "dir", "file"}] :
                  /\ f[DEST_PATH_FILE] \in {"absent", "dir"}
                  /\ f[DATASET_FILE] \in {"absent", "file"}
                  /\ f[DATASET_FILE] = "file" => f[DEST_PATH_FILE] = "dir" }
    /\ s3 \in SUBSET { <<SOURCE_S3_BUCKET, SOURCE_S3_KEY>> }
    /\ tables \in { db \in [TableNames -> [exists : BOOLEAN, rows : {<<>>}]] :
                    ~db[CreatedTable].exists }

----------------------------------------------------------------------------
(* One action per task, the scheduler's dependency step, and the next run  *)

\* A task that makes `pushes` in order: any push may raise, which fails the
\* try with the earlier pushes kept.
PushAll(t, pushes) ==
    \E k \in 0..Len(pushes) :
        /\ xcom' = XComAfter(xcom, t, pushes, k)
        /\ state' = [state EXCEPT ![t] =
                        IF k = Len(pushes) THEN "success" ELSE FailState(t)]
        /\ error' = [error EXCEPT ![t] =
                        IF k = Len(pushes) THEN "" ELSE "xcom"]

Fail(t, why) ==
    /\ state' = [state EXCEPT ![t] = FailState(t)]
    /\ error' = [error EXCEPT ![t] = why]

Succeed(t) ==
    /\ state' = [state EXCEPT ![t] = "success"]
    /\ error' = [error EXCEPT ![t] = ""]

is_data_local ==
    /\ Runnable("is_data_local")
    /\ trace' = Append(trace, "is_data_local")
    /\ checkedFile' = IF fs[DATASET_FILE] = "file" THEN "present" ELSE "absent"
    /\ PushAll("is_data_local", _is_data_local(DEST_PATH_FILE))
    /\ UNCHANGED <<run, fs, dataset, s3, tables, nSuccess>>

branch ==
    /\ Runnable("branch")
    /\ trace' = Append(trace, "branch")
    /\ LET chosen == _branch(xcom_pull(xcom, "is_local", "is_data_local"))
       IN  state' = [t \in Tasks |->
                        IF t = "branch" THEN "success"
                        ELSE IF t \in BranchSkipped(chosen) THEN "skipped"
                        ELSE state[t]]
    /\ UNCHANGED <<run, xcom, fs, dataset, s3, tables, error, checkedFile,
                   nSuccess>>

log_data_is_local ==
    /\ Runnable("log_data_is_local")
    /\ trace' = Append(trace, "log_data_is_local")
    /\ Succeed("log_data_is_local")
    /\ UNCHANGED <<run, xcom, fs, dataset, s3, tables, checkedFile, nSuccess>>

log_data_is_remote ==
    /\ Runnable("log_data_is_remote")
    /\ trace' = Append(trace, "log_data_is_remote")
    /\ Succeed("log_data_is_remote")
    /\ UNCHANGED <<run, xcom, fs, dataset, s3, tables, checkedFile, nSuccess>>

extract_data_from_s3 ==
    /\ Runnable("extract_data_from_s3")
    /\ trace' = Append(trace, "extract_data_from_s3")
    /\ LET out == _extract_from_s3(SOURCE_S3_KEY, SOURCE_S3_BUCKET,
                                   DEST_PATH_FILE)
       IN  /\ fs' = out.fs
           /\ IF out.ok THEN Succeed("extract_data_from_s3")
              ELSE Fail("extract_data_from_s3", "fetch")
    /\ UNCHANGED <<run, xcom, dataset, s3, tables, checkedFile, nSuccess>>

compute_general_aggregats ==
    /\ Runnable("compute_general_aggregats")
    /\ trace' = Append(trace, "compute_general_aggregats")
    /\ IF fs[DATASET_FILE] = "file"
       THEN PushAll("compute_general_aggregats",
                    _compute_general_aggregats(dataset))
       ELSE Fail("compute_general_aggregats", "read_csv") /\ xcom' = xcom
    /\ UNCHANGED <<run, fs, dataset, s3, tables, checkedFile, nSuccess>>

compute_loan_aggregats ==
    /\ Runnable("compute_loan_aggregats")
    /\ trace' = Append(trace, "compute_loan_aggregats")
    /\ IF fs[DATASET_FILE] = "file"
       THEN PushAll("compute_loan_aggregats", _compute_loan_aggregats(dataset))
       ELSE Fail("compute_loan_aggregats", "read_csv") /\ xcom' = xcom
    /\ UNCHANGED <<run, fs, dataset, s3, tables, checkedFile, nSuccess>>

create_aggregats_table_if_needed ==
    /\ Runnable("create_table")
    /\ trace' = Append(trace, "create_table")
    /\ \E up \in BOOLEAN :
          LET out == PgCreateIfNotExists(tables, CreatedTable, up)
          IN  /\ tables' = out.db
              /\ IF out.error = "" THEN Succeed("create_table")
                 ELSE Fail("create_table", out.error)
    /\ UNCHANGED <<run, xcom, fs, dataset, s3, checkedFile, nSuccess>>

store_aggregats ==
    /\ Runnable("store_aggregats")
    /\ trace' = Append(trace, "store_aggregats")
    /\ \E up \in BOOLEAN :
          LET out == PgInsert(tables, InsertTarget, StoreValues(xcom),
                              CURRENT_TIMESTAMP, up)
          IN  /\ tables' = out.db
              /\ IF out.error = ""
                 THEN Succeed("store_aggregats") /\ nSuccess' = nSuccess + 1
                 ELSE Fail("store_aggregats", out.error) /\ nSuccess' = nSuccess
    /\ UNCHANGED <<run, xcom, fs, dataset, s3, checkedFile>>

\* One pass of the scheduler over the run's task instances: every task whose
\* trigger rule can no longer be met is marked skipped or upstream_failed,
\* and so are the tasks that depend on those.
SchedulerMark ==
    /\ Settle(state) # state
    /\ state' = Settle(state)
    /\ UNCHANGED <<run, trace, xcom, fs, dataset, s3, tables, error,
                   checkedFile, nSuccess>>

\* The next daily run starts once this one is over.
NextRun ==
    /\ RunFinished
    /\ run < MaxRuns
    /\ run' = run + 1
    /\ state' = FreshTasks
    /\ trace' = <<>>
    /\ xcom' = NoXCom
    /\ error' = NoErrors
    /\ checkedFile' = "unchecked"
    /\ UNCHANGED <<fs, dataset, s3, tables, nSuccess>>

Next ==
    \/ is_data_local
    \/ branch
    \/ log_data_is_local
    \/ log_data_is_remote
    \/ extract_data_from_s3
    \/ compute_general_aggregats
    \/ compute_loan_aggregats
    \/ create_aggregats_table_if_needed
    \/ store_aggregats
    \/ SchedulerMark
    \/ NextRun

Spec == Init /\ [][Next]_vars

----------------------------------------------------------------------------
(* The branch selector on its own: the presence check is over and the      *)
(* XCom entry "is_local" holds any value, or none.                         *)

FlagValues == {NotPushed, None, PyTrue, PyFalse, PyInt(0), PyInt(1)}

BranchInit ==
    /\ run = 1
    /\ state = [FreshTasks EXCEPT !["is_data_local"] = "success"]
    /\ trace = <<"is_data_local">>
    /\ \E v \in FlagValues :
          xcom = [NoXCom EXCEPT ![<<"is_data_local", "is_local">>] = v]
    /\ error = NoErrors
    /\ checkedFile \in {"present", "absent"}
    /\ nSuccess = 0
    /\ dataset \in Datasets
    /\ fs \in { f \in [Paths -> {"absent", "dir", "file"}] :
                  /\ f[DEST_PATH_FILE] \in {"absent", "dir"}
                  /\ f[DATASET_FILE] = (IF checkedFile = "present"
                                        THEN "file" ELSE "absent")
                  /\ f[DATASET_FILE] = "file" => f[DEST_PATH_FILE] = "dir" }
    /\ s3 \in SUBSET { <<SOURCE_S3_BUCKET, SOURCE_S3_KEY>> }
    /\ tables \in { db \in [TableNames -> [exists : BOOLEAN, rows : {<<>>}]] :
                    ~db[CreatedTable].exists }

BranchNext ==
    \/ branch
    \/ log_data_is_local
    \/ log_data_is_remote
    \/ extract_data_from_s3
    \/ compute_general_aggregats
    \/ compute_loan_aggregats
    \/ create_aggregats_table_if_needed
    \/ store_aggregats
    \/ SchedulerMark

SpecBranch == BranchInit /\ [][BranchNext]_vars

----------------------------------------------------------------------------
(* Properties *)

IsLocalFlag == xcom_pull(xcom, "is_local", "is_data_local")
FlagPushed == xcom[<<"is_data_local", "is_local">>] \in {PyTrue, PyFalse}

LocalPathRan == Executed("log_data_is_local")
RemotePathRan ==
    Executed("log_data_is_remote") /\ Executed("extract_data_from_s3")

\* C1: once the presence flag is pushed, the run executes exactly one of the
\* local path (log_data_is_local) and the remote path (log_data_is_remote,
\* then extract_data_from_s3): never a task of each, and by the end of the
\* run not neither.
C1_BranchExclusive ==
    /\ ~(Executed("log_data_is_local")
         /\ (Executed("log_data_is_remote") \/ Executed("extract_data_from_s3")))
    /\ (FlagPushed /\ RunFinished) => (LocalPathRan # RemotePathRan)

C1_Witness == FlagPushed /\ RunFinished /\ RemotePathRan

DataSteps ==
    { "extract_data_from_s3", "compute_general_aggregats",
      "compute_loan_aggregats", "create_table", "store_aggregats" }

\* C2: when the dataset file was on disk at the presence check, the run never
\* executes extract_data_from_s3, the first data step it executes is
\* compute_general_aggregats, and a run whose presence check succeeded does
\* execute it.
C2_LocalSkipsFetch ==
    checkedFile = "present" =>
        /\ ~Executed("extract_data_from_s3")
        /\ \A i \in 1..Len(trace) :
              (trace[i] \in DataSteps /\ \A j \in 1..(i - 1) : trace[j] \notin DataSteps)
                  => trace[i] = "compute_general_aggregats"
        /\ (RunFinished /\ state["is_data_local"] = "success")
              => Executed("compute_general_aggregats")

C2_Witness ==
    checkedFile = "present" /\ Executed("compute_general_aggregats")

Before(a, b) ==
    \E i, j \in 1..Len(trace) : i < j /\ trace[i] = a /\ trace[j] = b

\* C3: when the dataset file was not on disk at the presence check, an
\* aggregator executes only after extract_data_from_s3 has; and if the bucket
\* lacks the object too, the run ends with a failed fetch and no aggregator
\* executed.
C3_AbsentFetchesFirst ==
    checkedFile = "absent" =>
        /\ \A a \in {"compute_general_aggregats", "compute_loan_aggregats"} :
              Executed(a) => Before("extract_data_from_s3", a)
        /\ (s3 = {} /\ RunFinished /\ state["is_data_local"] = "success")
              => /\ state["extract_data_from_s3"] = "failed"
                 /\ ~Executed("compute_general_aggregats")
                 /\ ~Executed("compute_loan_aggregats")

Rank(t) ==
    CASE t = "is_data_local" -> 1
      [] t = "branch" -> 2
      [] t = "log_data_is_local" -> 3
      [] t = "log_data_is_remote" -> 3
      [] t = "extract_data_from_s3" -> 4
      [] t = "compute_general_aggregats" -> 5
      [] t = "compute_loan_aggregats" -> 6
      [] t = "create_table" -> 7
      [] t = "store_aggregats" -> 8

AggregationSteps ==
    { "compute_general_aggregats", "compute_loan_aggregats", "create_table",
      "store_aggregats" }

SomeFailed == \E t \in Tasks : state[t] = "failed"

\* C4: within a run the executed steps follow the order presence check,
\* branch, local or remote path, general aggregation, domain aggregation,
\* ensure schema, append row; once a step has failed no step executes any
\* more in that run, the failed step stays failed and the run does not end
\* in success; a step is marked upstream_failed only after a failure, and no
\* aggregation or persistence step is ever skipped.
C4_OrderAndFailStop ==
    [][ /\ \A i, j \in 1..Len(trace') : i < j => Rank(trace'[i]) < Rank(trace'[j])
        /\ \A t \in Tasks : state'[t] = "upstream_failed" => SomeFailed'
        /\ \A t \in AggregationSteps : state'[t] # "skipped"
        /\ (SomeFailed /\ run' = run) =>
              /\ trace' = trace
              /\ \A t \in Tasks : state[t] = "failed" => state'[t] = "failed"
              /\ RunState' # "success"
      ]_vars

C4_Witness ==
    /\ state["extract_data_from_s3"] = "failed"
    /\ state["log_data_is_local"] = "skipped"
    /\ RunFinished

\* C5: the summary table aggregats_loans_table holds exactly as many rows as
\* runs have ended successfully.
C5_RowsEqualSuccesses == Len(tables[CreatedTable].rows) = nSuccess

AggregateKeys ==
    { <<"compute_general_aggregats", "nb_lines">>,
      <<"compute_general_aggregats", "nb_cols">>,
      <<"compute_loan_aggregats", "mean_loan_a">>,
      <<"compute_loan_aggregats", "mean_loan_b">>,
      <<"compute_loan_aggregats", "mean_loan_c">>,
      <<"compute_loan_aggregats", "mean_loan_d">> }

AllAggregatesNonNull ==
    \A e \in AggregateKeys : xcom[e] \notin {NotPushed, None}

\* C6: in a run where create_table succeeded, the database was reachable for
\* the insert and all six aggregates are non-null, store_aggregats succeeds,
\* the run ends in success and the row is in the created table.
C6_InsertIntoCreatedTable ==
    ( /\ state["create_table"] = "success"
      /\ Executed("store_aggregats")
      /\ error["store_aggregats"] # "connection"
      /\ AllAggregatesNonNull )
    => /\ state["store_aggregats"] = "success"
       /\ RunState = "success"
       /\ tables[CreatedTable].rows # <<>>

PushedValue(pushes, key) ==
    (pushes[CHOOSE i \in 1..Len(pushes) : pushes[i][1] = key])[2]

\* The row the two aggregators' results of this run make up
ProducedRow ==
    LET gen == _compute_general_aggregats(dataset)
        loan == _compute_loan_aggregats(dataset)
        Col(task, pushes, key) ==
            IF xcom[<<task, key>>] = PushedValue(pushes, key)
            THEN [num |-> xcom[<<task, key>>].num, den |-> xcom[<<task, key>>].den]
            ELSE [num |-> 0, den |-> 0]
    IN  [nb_lines |-> Col("compute_general_aggregats", gen, "nb_lines"),
         nb_cols |-> Col("compute_general_aggregats", gen, "nb_cols"),
         date_and_hour |-> run,
         mean_loan_a |-> Col("compute_loan_aggregats", loan, "mean_loan_a"),
         mean_loan_b |-> Col("compute_loan_aggregats", loan, "mean_loan_b"),
         mean_loan_c |-> Col("compute_loan_aggregats", loan, "mean_loan_c"),
         mean_loan_d |-> Col("compute_loan_aggregats", loan, "mean_loan_d")]

BothAggregatorsSucceeded ==
    /\ state["compute_general_aggregats"] = "success"
    /\ state["compute_loan_aggregats"] = "success"
    /\ \A e \in AggregateKeys : xcom[e] # NotPushed

RowsOfRun(n) ==
    { i \in 1..Len(tables[n].rows) : tables[n].rows[i].date_and_hour = run }

\* C7: a step changes a table's rows only by appending one row; that row
\* holds the row count and column count compute_general_aggregats pushed and
\* the four means compute_loan_aggregats pushed in the same run, both having
\* succeeded with all their values pushed before the append; a run in which an
\* aggregator failed or pushed only some of its values has no row.
C7_NoPartialAggregate ==
    [][ \A n \in TableNames :
          /\ tables'[n].rows # tables[n].rows =>
                /\ BothAggregatorsSucceeded
                /\ run' = run
                /\ tables'[n].rows = Append(tables[n].rows, ProducedRow)
          /\ RowsOfRun(n)' # {} => BothAggregatorsSucceeded'
      ]_vars

C7_Witness ==
    /\ RowsOfRun(InsertTarget) # {}
    /\ Len(dataset) # Len(Columns)

SqlNull == [num |-> 0, den |-> 0]

MeanKey(g) ==
    CASE g = "A" -> "mean_loan_a" [] g = "B" -> "mean_loan_b"
      [] g = "C" -> "mean_loan_c" [] g = "D" -> "mean_loan_d"

NoRowOfGrade(g) == \A i \in 1..Len(dataset) : dataset[i].grade # g

\* C8: for a grade of A..D with no row in the dataset, compute_loan_aggregats
\* pushes a null mean, and store_aggregats (the table it inserts into
\* existing and the database reachable) still succeeds, appending a row whose
\* column for that grade is NULL.
C8_NullMeanStored ==
    \A g \in TrackedGrades :
        (NoRowOfGrade(g) /\ state["compute_loan_aggregats"] = "success") =>
            /\ xcom[<<"compute_loan_aggregats", MeanKey(g)>>] = None
            /\ ( /\ Executed("store_aggregats")
                 /\ tables[InsertTarget].exists
                 /\ error["store_aggregats"] # "connection" )
               => /\ state["store_aggregats"] = "success"
                  /\ \E n \in TableNames : \E i \in RowsOfRun(n) :
                        tables[n].rows[i][MeanKey(g)] = SqlNull

LocalChosen ==
    /\ state["log_data_is_remote"] = "skipped"
    /\ state["log_data_is_local"] # "skipped"

RemoteChosen ==
    /\ state["log_data_is_local"] = "skipped"
    /\ state["log_data_is_remote"] # "skipped"

IoSteps == {"extract_data_from_s3", "create_table", "store_aggregats"}

\* C10 as claimed: a failed fetch or database write has been tried exactly
\* twice, and no step is tried more than twice.
C10_RetriedOnce ==
    /\ \A t \in IoSteps : state[t] = "failed" => TryNumber(t) = 2
    /\ \A t \in Tasks : TryNumber(t) <= 2

\* Some task can be run, or the scheduler has a task to mark
CanStep == (\E t \in Tasks : Runnable(t)) \/ Settle(state) # state

\* C10 as amended: no step is tried again: a step is tried at most once, a
\* try that fails makes the step failed at once (never up for retry) and the
\* run failed; and a run never stops before all its steps are settled.
C10_NoRetry ==
    /\ \A t \in Tasks : TryNumber(t) <= 1
    /\ \A t \in Tasks : state[t] # "up_for_retry"
    /\ \A t \in Tasks : error[t] # "" => state[t] = "failed"
    /\ (SomeFailed /\ RunFinished) => RunState = "failed"
    /\ RunFinished \/ CanStep

C10_Witness ==
    /\ state["extract_data_from_s3"] = "failed"
    /\ TryNumber("extract_data_from_s3") = 1
    /\ RunState = "failed"

====
